---- MODULE Spec2Model ----
(***************************************************************************)
(* Reconciliation pass of feedly_asset_sync (src/feedly_asset_sync/main.py):*)
(* sync_to_feedly, _add_entries_to_feedly and _create_new_feedly_list.     *)
(*                                                                         *)
(* Strings are sequences of one-character strings, so that startswith and  *)
(* the f-string "{object_type}-{n}" are computed, not assumed.  A Python   *)
(* dict is a function whose DOMAIN is its set of keys: item["k"] raises    *)
(* KeyError exactly when "k" \notin DOMAIN item.  Entity texts are         *)
(* integers.                                                               *)
(***************************************************************************)
EXTENDS Integers, Sequences, FiniteSets, TLC

\* The capacity of a destination list: the literal 50 of lines 253, 260 and
\* 355.  The code only compares a length with it, subtracts a length from it
\* and slices with it, so a small capacity exercises the same branches; it is
\* a bound of the model, and every formula below is stated with Capacity.
Capacity == 2

\* Bounds of the model.
MaxLists == 2       \* lists in the destination snapshot the first pass reads
MaxPasses == 2      \* passes run one after the other

VARIABLES
    jira_data,      \* sequence of [object_type, names]: the dict in insertion order
    snapshot,       \* destination lists as fetched before the current pass
    feedly_data,    \* the in-memory list of items the pass mutates in place
    list_counts,    \* function object_type -> int (lines 188-193, 351)
    pc,             \* "start" | "type" | "loop" | "done"
    ti,             \* index in jira_data of the type being processed
    existing_lists, \* indices into feedly_data (the items are shared references)
    new_entries,    \* the set passed to _add_entries_to_feedly
    intents,        \* requests prepared in the current pass, in order
    error,          \* "" or the exception caught at lines 222-225
    pass,           \* number of the current pass
    begun           \* history: per type begun in this pass, its missing set and spare room

vars == <<jira_data, snapshot, feedly_data, list_counts, pc, ti, existing_lists,
          new_entries, intents, error, pass, begun>>

-----------------------------------------------------------------------------
\* Strings

Range(s) == {s[i] : i \in 1..Len(s)}

\* str.startswith (lines 190, 201)
StartsWith(s, p) == Len(p) <= Len(s) /\ SubSeq(s, 1, Len(p)) = p

DigitChars == <<"0", "1", "2", "3", "4", "5", "6", "7", "8", "9">>

\* decimal rendering of a natural number, as the f-string of line 352 renders it
RECURSIVE FormatInt(_)
FormatInt(n) ==
    IF n < 10 THEN <<DigitChars[n + 1]>>
    ELSE FormatInt(n \div 10) \o <<DigitChars[(n % 10) + 1]>>

\* f"{object_type}-{list_counts[object_type]}" (line 352)
NewLabel(object_type, n) == object_type \o <<"-">> \o FormatInt(n)

-----------------------------------------------------------------------------
\* Items and entities

\* {"type": "customKeyword", "text": name} (lines 264, 358)
Keyword(name) == [type |-> "customKeyword", text |-> name]

\* item.get("entities", []) (lines 183, 207, 255)
GetEntities(item) == IF "entities" \in DOMAIN item THEN item.entities ELSE <<>>

\* Mutant: the entities are read under a key they do not have, so that every
\* text reads as None (0 here, which no label is).
EntityTextsWrongKey(item) == {0 : i \in 1..Len(GetEntities(item))}

\* {entity.get("text") for entity in item.get("entities", [])} (lines 206-208, 254-256)
EntityTexts(item) == {GetEntities(item)[i].text : i \in 1..Len(GetEntities(item))}

\* list(s): some enumeration of the set; the code reads only the length and
\* the text set of what it appends, so one order (ascending) stands for all.
RECURSIVE ListOf(_)
ListOf(S) ==
    IF S = {} THEN <<>>
    ELSE LET m == CHOOSE x \in S : \A y \in S : x <= y
         IN <<m>> \o ListOf(S \ {m})

\* The sets list(s)[:k] can be: which k elements come first is arbitrary.
RECURSIVE Takes(_, _)
Takes(S, k) ==
    IF k <= 0 THEN {{}}
    ELSE IF Cardinality(S) <= k THEN {S}
    ELSE LET x == CHOOSE x \in S : TRUE
         IN Takes(S \ {x}, k) \cup {T \cup {x} : T \in Takes(S \ {x}, k - 1)}

-----------------------------------------------------------------------------
\* sync_to_feedly, lines 181-193

\* item["label"] of line 183 raises KeyError for an item without the key
HasLabels(fd) == \A i \in 1..Len(fd) : "label" \in DOMAIN fd[i]

\* the dict comprehension of lines 182-185: a later item with the same label
\* overwrites an earlier one
feedly_entities(fd) ==
    [l \in {fd[i].label : i \in 1..Len(fd)} |->
        LET last == CHOOSE i \in 1..Len(fd) :
                        /\ fd[i].label = l
                        /\ \A j \in (i + 1)..Len(fd) : fd[j].label # l
        IN EntityTexts(fd[last])]

\* lines 188-193: the number of distinct labels that start with the type
ListCounts(fd, jd) ==
    [T \in {jd[k].object_type : k \in 1..Len(jd)} |->
        Cardinality({l \in DOMAIN feedly_entities(fd) : StartsWith(l, T)})]

\* lines 200-202: the items whose label starts with the type, in list order
RECURSIVE ExistingFrom(_, _, _)
ExistingFrom(fd, T, i) ==
    IF i > Len(fd) THEN <<>>
    ELSE (IF StartsWith(fd[i].label, T) THEN <<i>> ELSE <<>>)
         \o ExistingFrom(fd, T, i + 1)

ExistingLists(fd, T) == ExistingFrom(fd, T, 1)

\* Mutant: the loop of lines 205-209 is left out.
NewEntriesNotReduced(fd, names, existing) == Range(names)

\* lines 203-209: set(names) minus the texts of every existing list
NewEntries(fd, names, existing) ==
    Range(names) \ UNION {EntityTexts(fd[existing[k]]) : k \in 1..Len(existing)}

-----------------------------------------------------------------------------
\* _add_entries_to_feedly, lines 250-297

\* line 258: new_entries - current_entities
ToAdd(entries, item) == entries \ EntityTexts(item)

\* Mutant: room for one entry too many.
SpaceLeftOffByOne(item) == Capacity - Len(item.entities) + 1

\* line 260
SpaceLeft(item) == Capacity - Len(item.entities)

\* Mutant: the new entries are assigned, not appended.
ExtendReplaces(entities, to_add) ==
    [i \in 1..Cardinality(to_add) |-> Keyword(ListOf(to_add)[i])]

\* lines 263-265: item["entities"].extend(...)
Extend(entities, to_add) ==
    entities \o [i \in 1..Cardinality(to_add) |-> Keyword(ListOf(to_add)[i])]

\* lines 266-271
UpdatePayload(item) ==
    [id |-> item.id, label |-> item.label, entities |-> item.entities,
     type |-> "customTopic"]

\* Where the scan of lines 252-259 stops at an item: item["entities"] raises
\* KeyError (line 253), or the item has room and something to take.
StopsAt(item, entries) ==
    \/ "entities" \notin DOMAIN item
    \/ /\ Len(item.entities) < Capacity
       /\ ToAdd(entries, item) # {}

\* Mutant: the scan keeps the last item it could stop at, not the first.
ScanIndexLast(fd, existing, entries) ==
    IF \E k \in 1..Len(existing) : StopsAt(fd[existing[k]], entries)
    THEN CHOOSE k \in 1..Len(existing) :
            /\ StopsAt(fd[existing[k]], entries)
            /\ \A j \in (k + 1)..Len(existing) : ~StopsAt(fd[existing[j]], entries)
    ELSE 0

\* The position in existing_lists where the for loop of line 252 stops,
\* 0 when it runs to its end.
ScanIndex(fd, existing, entries) ==
    IF \E k \in 1..Len(existing) : StopsAt(fd[existing[k]], entries)
    THEN CHOOSE k \in 1..Len(existing) :
            /\ StopsAt(fd[existing[k]], entries)
            /\ \A j \in 1..(k - 1) : ~StopsAt(fd[existing[j]], entries)
    ELSE 0

-----------------------------------------------------------------------------
\* _create_new_feedly_list, lines 351-385

\* lines 356-360
CreatePayload(new_label, to_add) ==
    [label |-> new_label,
     entities |-> [i \in 1..Cardinality(to_add) |-> Keyword(ListOf(to_add)[i])],
     type |-> "customTopic"]

-----------------------------------------------------------------------------
\* The destination (spec sections 4.3 and 6): PUT replaces the list with that
\* id, POST adds a list and assigns its id.

ApplyOne(S, r) ==
    IF r.method = "PUT"
    THEN [i \in 1..Len(S) |->
            IF S[i].id = r.payload.id
            THEN [id |-> S[i].id, label |-> r.payload.label,
                  entities |-> r.payload.entities]
            ELSE S[i]]
    ELSE Append(S, [id |-> Len(S) + 1, label |-> r.payload.label,
                    entities |-> r.payload.entities])

RECURSIVE ApplyFrom(_, _, _)
ApplyFrom(S, rs, i) ==
    IF i > Len(rs) THEN S ELSE ApplyFrom(ApplyOne(S, rs[i]), rs, i + 1)

Apply(S, rs) == ApplyFrom(S, rs, 1)

-----------------------------------------------------------------------------
\* Inputs

TypeA == <<"A">>
TypeAB == <<"A", "B">>
Types == {TypeA, TypeAB}

Prefix(k) == [i \in 1..k |-> i]

\* texts that no source label carries
Filler(k) == [i \in 1..k |-> Keyword(100 + i)]

\* Names of one type: up to one label more than a list holds (so that a type
\* can need two new lists), or a label repeated (line 130 appends every
\* record's label).
NamesMenu == {Prefix(k) : k \in 0..(Capacity + 1)} \cup {<<1, 1>>}

JiraInputs ==
    {<<[object_type |-> q[1], names |-> q[3]], [object_type |-> q[2], names |-> q[4]]>> :
        q \in {r \in Types \X Types \X NamesMenu \X NamesMenu : r[1] # r[2]}}

LabelMenu == {NewLabel(TypeA, 2), NewLabel(TypeAB, 1)}

\* empty, one source label, foreign texts with room for one more, full
EntitiesMenu == {<<>>, <<Keyword(1)>>, Filler(Capacity - 1), Filler(Capacity)}

\* an item of the destination's answer, each with its id; the last two kinds
\* lack a key
ItemMenu(id) ==
    {[id |-> id, label |-> l, entities |-> e] : l \in LabelMenu, e \in EntitiesMenu}
    \cup {[id |-> id, label |-> NewLabel(TypeAB, 1)]}
    \cup {[id |-> id, entities |-> <<>>]}

RECURSIVE SnapshotsOfLen(_)
SnapshotsOfLen(n) ==
    IF n = 0 THEN {<<>>}
    ELSE {Append(S, it) : S \in SnapshotsOfLen(n - 1), it \in ItemMenu(n)}

Snapshots == UNION {SnapshotsOfLen(n) : n \in 0..MaxLists}

-----------------------------------------------------------------------------
\* The pass

Init ==
    /\ jira_data \in JiraInputs
    /\ snapshot \in Snapshots
    /\ feedly_data = snapshot
    /\ list_counts = <<>>
    /\ pc = "start"
    /\ ti = 0
    /\ existing_lists = <<>>
    /\ new_entries = {}
    /\ intents = <<>>
    /\ error = ""
    /\ pass = 1
    /\ begun = <<>>

\* lines 181-193; a KeyError is caught at line 222 and ends the pass
Start ==
    /\ pc = "start"
    /\ IF HasLabels(feedly_data)
       THEN /\ list_counts' = ListCounts(feedly_data, jira_data)
            /\ pc' = "type"
            /\ ti' = 1
            /\ error' = error
       ELSE /\ pc' = "done"
            /\ error' = "KeyError"
            /\ UNCHANGED <<list_counts, ti>>
    /\ UNCHANGED <<jira_data, snapshot, feedly_data, existing_lists, new_entries,
                   intents, pass, begun>>

\* spare room of the existing lists (a list without entries has none to offer)
Spare(fd, existing) ==
    LET room(k) == IF "entities" \in DOMAIN fd[existing[k]]
                   THEN Capacity - Len(fd[existing[k]].entities) ELSE 0
        RECURSIVE sum(_)
        sum(k) == IF k = 0 THEN 0
                  ELSE sum(k - 1) + (IF room(k) > 0 THEN room(k) ELSE 0)
    IN sum(Len(existing))

\* lines 195-210: one turn of the for loop up to the call of line 211
BeginType ==
    /\ pc = "type"
    /\ ti <= Len(jira_data)
    /\ LET T == jira_data[ti].object_type
           existing == ExistingLists(feedly_data, T)
           missing == NewEntries(feedly_data, jira_data[ti].names, existing)
       IN /\ existing_lists' = existing
          /\ new_entries' = missing
          /\ begun' = Append(begun, [object_type |-> T, missing |-> missing,
                                     spare |-> Spare(feedly_data, existing)])
    /\ pc' = "loop"
    /\ UNCHANGED <<jira_data, snapshot, feedly_data, list_counts, ti, intents,
                   error, pass>>

\* line 250 with new_entries empty: the call returns, the for loop goes on
EndType ==
    /\ pc = "loop"
    /\ new_entries = {}
    /\ pc' = "type"
    /\ ti' = ti + 1
    /\ UNCHANGED <<jira_data, snapshot, feedly_data, list_counts, existing_lists,
                   new_entries, intents, error, pass, begun>>

\* lines 252-286: the scan stops at an item with room; it is extended and sent
UpdateList ==
    /\ pc = "loop"
    /\ new_entries # {}
    /\ LET k == ScanIndex(feedly_data, existing_lists, new_entries)
       IN /\ k # 0
          /\ "entities" \in DOMAIN feedly_data[existing_lists[k]]
          /\ LET idx == existing_lists[k]
                 item == feedly_data[idx]
             IN \E to_add \in Takes(ToAdd(new_entries, item), SpaceLeft(item)) :
                  LET item2 == [item EXCEPT
                                  !.entities = Extend(item.entities, to_add)]
                  IN /\ feedly_data' = [feedly_data EXCEPT ![idx] = item2]
                     /\ intents' = Append(intents,
                            [method |-> "PUT", payload |-> UpdatePayload(item2),
                             object_type |-> jira_data[ti].object_type])
                     /\ new_entries' = new_entries \ to_add
    /\ UNCHANGED <<jira_data, snapshot, list_counts, pc, ti, existing_lists,
                   error, pass, begun>>

\* line 253 on an item without "entities": KeyError, caught at line 222
ScanKeyError ==
    /\ pc = "loop"
    /\ new_entries # {}
    /\ LET k == ScanIndex(feedly_data, existing_lists, new_entries)
       IN /\ k # 0
          /\ "entities" \notin DOMAIN feedly_data[existing_lists[k]]
    /\ pc' = "done"
    /\ error' = "KeyError"
    /\ UNCHANGED <<jira_data, snapshot, feedly_data, list_counts, ti,
                   existing_lists, new_entries, intents, pass, begun>>

\* lines 288-297 and 351-385: nothing was added, a new list is created
CreateList ==
    /\ pc = "loop"
    /\ new_entries # {}
    /\ ScanIndex(feedly_data, existing_lists, new_entries) = 0
    /\ LET T == jira_data[ti].object_type
           n == list_counts[T] + 1
       IN /\ list_counts' = [list_counts EXCEPT ![T] = n]
          /\ \E to_add \in Takes(new_entries, Capacity) :
                /\ intents' = Append(intents,
                       [method |-> "POST",
                        payload |-> CreatePayload(NewLabel(T, n), to_add),
                        object_type |-> T])
                /\ new_entries' = new_entries \ to_add
    /\ UNCHANGED <<jira_data, snapshot, feedly_data, pc, ti, existing_lists,
                   error, pass, begun>>

\* the for loop of line 195 is exhausted: sync_to_feedly returns
Finish ==
    /\ pc = "type"
    /\ ti > Len(jira_data)
    /\ pc' = "done"
    /\ UNCHANGED <<jira_data, snapshot, feedly_data, list_counts, ti,
                   existing_lists, new_entries, intents, error, pass, begun>>

\* The destination applies the requests; the next run (main, lines 414-422)
\* fetches the result and reconciles the same source data against it.
NextPass ==
    /\ pc = "done"
    /\ pass < MaxPasses
    /\ snapshot' = Apply(snapshot, intents)
    /\ feedly_data' = snapshot'
    /\ list_counts' = <<>>
    /\ pc' = "start"
    /\ ti' = 0
    /\ existing_lists' = <<>>
    /\ new_entries' = {}
    /\ intents' = <<>>
    /\ error' = ""
    /\ pass' = pass + 1
    /\ begun' = <<>>
    /\ UNCHANGED jira_data

Next ==
    \/ Start
    \/ BeginType
    \/ EndType
    \/ UpdateList
    \/ ScanKeyError
    \/ CreateList
    \/ Finish
    \/ NextPass

Spec == Init /\ [][Next]_vars

FairSpec == Spec /\ WF_vars(Next)

-----------------------------------------------------------------------------
\* Vocabulary of the properties

\* the destination after every request of the pass is applied to what the
\* pass fetched
After == Apply(snapshot, intents)

NamesOf(k) == Range(jira_data[k].names)

\* positions in intents of the requests of one method prepared for a type
Requests(method, T) ==
    {i \in 1..Len(intents) : intents[i].method = method /\ intents[i].object_type = T}

PayloadTexts(r) == {r.payload.entities[i].text : i \in 1..Len(r.payload.entities)}

IsPrefixOf(s, t) == Len(s) <= Len(t) /\ SubSeq(t, 1, Len(s)) = s

CeilDiv(a, b) == (a + b - 1) \div b

DigitValue(c) == CHOOSE d \in 0..9 : DigitChars[d + 1] = c

RECURSIVE ParseInt(_)
ParseInt(s) ==
    IF s = <<>> THEN 0
    ELSE ParseInt(SubSeq(s, 1, Len(s) - 1)) * 10 + DigitValue(s[Len(s)])

\* the number n of a label "{T}-{n}", 0 for any other label
SuffixOf(label, T) ==
    LET head == T \o <<"-">>
        rest == SubSeq(label, Len(head) + 1, Len(label))
    IN IF StartsWith(label, head) /\ rest # <<>>
          /\ \A i \in 1..Len(rest) : rest[i] \in Range(DigitChars)
       THEN ParseInt(rest) ELSE 0

\* the highest numeric suffix among the fetched lists of a type
HighestSuffix(T) ==
    LET nums == {SuffixOf(snapshot[i].label, T) :
                    i \in {j \in 1..Len(snapshot) : "label" \in DOMAIN snapshot[j]}}
                \cup {0}
    IN CHOOSE m \in nums : \A n \in nums : n <= m

\* the requests prepared for a type before position i
CreatedBefore(T, i) == Cardinality({j \in Requests("POST", T) : j < i})

\* the step appended one request to intents
Emitted == Len(intents') = Len(intents) + 1

-----------------------------------------------------------------------------
\* C1 (Coverage): when the pass has ended, every label of every type is in
\* the entries of some list, of the destination with the pass's requests
\* applied, whose label starts with the type.
Coverage ==
    pc = "done" =>
        \A k \in 1..Len(jira_data) : \A L \in NamesOf(k) :
            \E i \in 1..Len(After) :
                /\ "label" \in DOMAIN After[i]
                /\ StartsWith(After[i].label, jira_data[k].object_type)
                /\ L \in EntityTexts(After[i])

\* C2 (Naming determinism): the label of every created list differs from the
\* label of every fetched list and of every other list created in the pass,
\* and the k-th list created for a type is numbered k above the highest
\* numeric suffix of the type's fetched lists.
NamingDeterminism ==
    \A i \in 1..Len(intents) :
        intents[i].method = "POST" =>
            /\ \A j \in 1..Len(snapshot) :
                   "label" \in DOMAIN snapshot[j] =>
                       snapshot[j].label # intents[i].payload.label
            /\ \A j \in 1..Len(intents) :
                   (j # i /\ intents[j].method = "POST") =>
                       intents[j].payload.label # intents[i].payload.label
            /\ intents[i].payload.label =
                   NewLabel(intents[i].object_type,
                            HighestSuffix(intents[i].object_type)
                            + CreatedBefore(intents[i].object_type, i) + 1)

\* C3 (Capacity invariant): every request carries at most Capacity entries.
CapacityInvariant ==
    \A i \in 1..Len(intents) : Len(intents[i].payload.entities) <= Capacity

\* C3 witness: two types with overlapping prefixes have packed into the same
\* list, the second filling it, and a list was created after that.
CapacityWitness ==
    \E i, j, k \in 1..Len(intents) :
        /\ i < j /\ j < k
        /\ intents[i].method = "PUT" /\ intents[j].method = "PUT"
        /\ intents[i].payload.id = intents[j].payload.id
        /\ intents[i].object_type # intents[j].object_type
        /\ Len(intents[j].payload.entities) = Capacity
        /\ intents[k].method = "POST"

\* C4 (Minimal new-list creation): when the pass has ended, the number of
\* lists created for a type is ceil(max(0, |missing| - spare) / Capacity),
\* missing and spare taken when the processing of the type began.
MinimalCreation ==
    pc = "done" =>
        \A k \in 1..Len(begun) :
            LET over == Cardinality(begun[k].missing) - begun[k].spare
            IN Cardinality(Requests("POST", begun[k].object_type)) =
                   CeilDiv(IF over > 0 THEN over ELSE 0, Capacity)

StrictProgress ==
    [][(pc = "loop" /\ new_entries # {}) =>
          Cardinality(new_entries') < Cardinality(new_entries)]_vars

\* C6 (Termination): every pass that starts ends.
PassEnds == (pc = "start") ~> (pc = "done")

\* C7 (Error isolation): a malformed list stops no type from being
\* reconciled: the pass ends without a fault, having processed every type,
\* and every label is covered.
ErrorIsolation ==
    pc = "done" =>
        /\ error = ""
        /\ Len(begun) = Len(jira_data)
        /\ Coverage

\* C8 (No duplicate entries): the texts of the entries of a request are
\* pairwise different.
NoDuplicateEntries ==
    \A i \in 1..Len(intents) :
        \A a, b \in 1..Len(intents[i].payload.entities) :
            a # b => intents[i].payload.entities[a].text
                     # intents[i].payload.entities[b].text

\* C8 witness: the source repeats a label within a type, and for that type a
\* list that already held an entry was updated.
NoDuplicateWitness ==
    \E k \in 1..Len(jira_data) :
        /\ jira_data[k].names = <<1, 1>>
        /\ \E i \in Requests("PUT", jira_data[k].object_type) :
              Len(intents[i].payload.entities) >= 2

\* C9 (Append-only updates): the entries of an update are the entries the
\* list had just before, in the same order, followed by customKeyword entries
\* of labels taken from the missing set; the entries the list had when the
\* pass fetched it are all there, in order.
AppendOnly ==
    [][(Emitted /\ intents'[Len(intents')].method = "PUT") =>
          LET r == intents'[Len(intents')]
              sent == r.payload.entities
          IN /\ \E i \in 1..Len(feedly_data) :
                   /\ feedly_data[i].id = r.payload.id
                   /\ IsPrefixOf(feedly_data[i].entities, sent)
                   /\ \A n \in (Len(feedly_data[i].entities) + 1)..Len(sent) :
                         sent[n].type = "customKeyword"
                   /\ {sent[n].text :
                          n \in (Len(feedly_data[i].entities) + 1)..Len(sent)}
                      = new_entries \ new_entries'
                   /\ Len(sent) > Len(feedly_data[i].entities)
             /\ \A i \in 1..Len(snapshot) :
                   snapshot[i].id = r.payload.id =>
                       IsPrefixOf(snapshot[i].entities, sent)]_vars

\* C9 witness: a list that held a source label when it was fetched has been
\* updated with more entries than it held.
AppendOnlyWitness ==
    \E i \in 1..Len(intents) : \E j \in 1..Len(snapshot) :
        /\ intents[i].method = "PUT"
        /\ snapshot[j].id = intents[i].payload.id
        /\ snapshot[j].entities = <<Keyword(1)>>
        /\ Len(intents[i].payload.entities) > 1

\* no update for a type follows a creation for that type
NoUpdateAfterCreate ==
    \A i, j \in 1..Len(intents) :
        (i < j /\ intents[i].method = "POST" /\ intents[j].method = "PUT") =>
            intents[i].object_type # intents[j].object_type

\* C10 (Greedy ordering): a list is updated only when every list of the type
\* before it holds Capacity entries or more, a list is created only when
\* every list of the type does, and no update for a type follows a creation
\* for it.
GreedyOrdering ==
    [][Emitted =>
          LET r == intents'[Len(intents')]
              full(k) == /\ "entities" \in DOMAIN feedly_data[existing_lists[k]]
                         /\ Len(feedly_data[existing_lists[k]].entities) >= Capacity
          IN /\ r.method = "PUT" =>
                   \E k \in 1..Len(existing_lists) :
                       /\ feedly_data[existing_lists[k]].id = r.payload.id
                       /\ \A j \in 1..(k - 1) : full(j)
             /\ r.method = "POST" => \A k \in 1..Len(existing_lists) : full(k)
             /\ NoUpdateAfterCreate']_vars

\* C10 witness: for one type, the second of its lists was updated and then a
\* list was created.
GreedyWitness ==
    \E i, j \in 1..Len(intents) :
        /\ i < j
        /\ intents[i].method = "PUT" /\ intents[j].method = "POST"
        /\ intents[i].object_type = intents[j].object_type
        /\ intents[i].payload.id = 2
        /\ Len(existing_lists) = 2

====
